---- MODULE Spec2Model ----
(***************************************************************************)
(* Model of teamster.py: the recursive image catalog walk with lazy        *)
(* thumbnail creation (get_file_listing, create_thumbnail), the manifest   *)
(* handler (serve_config_json) and the file handler (serve_images,         *)
(* find_file).                                                             *)
(*                                                                         *)
(* A Python str is a sequence of one-character strings; a relative Path is *)
(* the sequence of its components (each a str).                            *)
(***************************************************************************)
EXTENDS Integers, Sequences, FiniteSets, TLC

\* ---------------------------------------------------------------- bounds
\* largest number of files in the image tree
MaxFiles == 3
\* how many times the content of the source images is edited
MaxEdits == 1
\* largest number of files in the image tree of the threaded server
MaxThreadedFiles == 1

\* ------------------------------------------------------------- constants
V2_API_PREFIX == <<"/", "e", "v", "e", "r", "g", "r", "e", "e", "n", "-", "a", "s", "s", "e", "t", "s", "/", "b", "a", "c", "k", "g", "r", "o", "u", "n", "d", "i", "m", "a", "g", "e", "s">>

ACCEPTED_SUFFIXES == {<<"p", "n", "g">>, <<"j", "p", "g">>, <<"j", "p", "e", "g">>, <<"g", "i", "f">>}

\* EXTENSION_MAPPING.get(ext): the mapped extension, or <<>> for None
EXTENSION_MAPPING(ext) ==
    IF ext = <<"j", "p", "e", "g">> THEN <<"j", "p", "g">>
    ELSE IF ext = <<"g", "i", "f">> THEN <<"j", "p", "g">>
    ELSE <<>>

IMAGES == <<"i", "m", "a", "g", "e", "s">>

THUMBNAILS == <<"t", "h", "u", "m", "b", "n", "a", "i", "l", "s">>

VIDEO_KEY == "videoBackgroundImages"

\* ------------------------------------------------------- str operations
RECURSIVE rfind(_, _)
\* s.rfind(c) as a 1-based index, 0 when c does not occur
rfind(s, c) ==
    IF s = <<>> THEN 0
    ELSE IF s[Len(s)] = c THEN Len(s)
    ELSE rfind(SubSeq(s, 1, Len(s) - 1), c)

\* str.lower() of one character
LowerChar(c) ==
    CASE c = "A" -> "a" [] c = "B" -> "b" [] c = "D" -> "d" [] c = "E" -> "e"
      [] c = "F" -> "f" [] c = "G" -> "g" [] c = "I" -> "i" [] c = "J" -> "j"
      [] c = "N" -> "n" [] c = "P" -> "p" [] c = "S" -> "s" [] c = "T" -> "t"
      [] c = "X" -> "x" [] OTHER -> c

lower(s) == [i \in 1..Len(s) |-> LowerChar(s[i])]

\* s.replace(".", "")
replace_dot(s) == SelectSeq(s, LAMBDA c : c # ".")

RECURSIVE join(_)
\* str(path): the components joined with "/"
join(path) ==
    IF path = <<>> THEN <<>>
    ELSE IF Len(path) = 1 THEN path[1]
    ELSE path[1] \o <<"/">> \o join(Tail(path))

RECURSIVE split(_)
\* Path(s) for a relative s: the components between the "/" (empty ones
\* are dropped, as pathlib collapses them)
split(s) ==
    IF s = <<>> THEN <<>>
    ELSE LET i == CHOOSE k \in 1..(Len(s) + 1) :
                     /\ k = Len(s) + 1 \/ s[k] = "/"
                     /\ \A j \in 1..(k - 1) : s[j] # "/"
             head == SubSeq(s, 1, i - 1)
             rest == IF i >= Len(s) THEN <<>> ELSE SubSeq(s, i + 1, Len(s))
         IN  IF head = <<>> THEN split(rest) ELSE <<head>> \o split(rest)

\* ------------------------------------------------------ pathlib.PurePath
\* PurePath.suffix of a final component: from the last dot on, unless that
\* dot is the first or the last character
name_suffix(name) ==
    LET i == rfind(name, ".")
    IN  IF 1 < i /\ i < Len(name) THEN SubSeq(name, i, Len(name)) ELSE <<>>

suffix(path) == IF path = <<>> THEN <<>> ELSE name_suffix(path[Len(path)])

\* PurePath.stem
stem(path) ==
    LET name == path[Len(path)]
        i    == rfind(name, ".")
    IN  IF 1 < i /\ i < Len(name) THEN SubSeq(name, 1, i - 1) ELSE name

\* PurePath.parent
parent(path) == SubSeq(path, 1, Len(path) - 1)

\* path.with_suffix(""): the last suffix of the final component removed
with_suffix_empty(path) ==
    LET name == path[Len(path)]
        sfx  == name_suffix(name)
    IN  parent(path) \o <<SubSeq(name, 1, Len(name) - Len(sfx))>>


\* ------------------------------------------- the bounded image directory
\* file and directory names
N_a_png == <<"a", ".", "p", "n", "g">>

N_b_gif == <<"b", ".", "g", "i", "f">>

N_b_gif_jpg == <<"b", ".", "g", "i", "f", ".", "j", "p", "g">>

N_c_txt == <<"c", ".", "t", "x", "t">>

N_gif == <<"g", "i", "f">>

N_sub == <<"s", "u", "b">>

N_b_jpeg == <<"b", ".", "j", "p", "e", "g">>

N_a_PNG == <<"a", ".", "P", "N", "G">>

N_d_jpg == <<"d", ".", "j", "p", "g">>

N_e_jpg == <<"e", ".", "j", "p", "g">>

\* the files an image tree is drawn from: images at three depths, a
\* relabeled file next to a file named like its public name, a text file,
\* a file whose whole name is "gif", an upper-case extension, and a
\* directory whose name ends in an accepted extension
FileUniverse ==
    { <<N_a_png>>, <<N_b_gif>>, <<N_b_gif_jpg>>, <<N_c_txt>>, <<N_gif>>,
      <<N_sub, N_b_jpeg>>, <<N_sub, N_a_PNG>>, <<N_sub, N_d_jpg, N_e_jpg>> }

Trees == { t \in SUBSET FileUniverse : Cardinality(t) <= MaxFiles }

\* os.listdir order: a directory lists its children in the order of one of
\* these rankings of the names
Ranking1 ==
    << N_a_png, N_b_gif, N_b_gif_jpg, N_c_txt, N_gif, N_sub, N_b_jpeg,
       N_a_PNG, N_d_jpg, N_e_jpg >>

Ranking2 == [i \in 1..Len(Ranking1) |-> Ranking1[Len(Ranking1) + 1 - i]]

Orders == {Ranking1, Ranking2}

Workers == {1, 2}

Versions == {1, 2}

VARIABLES
    image_files,    \* the non-directory files under config.image_dir
    order,          \* the enumeration order of the file system
    gen,            \* generation of the source images' content
    thumbs,         \* files under config.thumbnail_dir: path -> content
    thumb_dirs,     \* directories under config.thumbnail_dir (<<>> = itself)
    teams_version,  \* config.teams_version
    pc,             \* per worker: position in the request it handles
    stack,          \* per worker: the iterdir() iterators of the nested generators
    cur,            \* per worker: img, the file being processed
    entries,        \* per worker: the entries yielded so far
    origin,         \* per worker: the file that produced each entry
    calls,          \* per worker: create_thumbnail calls of this request
    resp,           \* per worker: the response of its last request
    served,         \* per version: the last manifest served (<<>> or <<body>>)
    served_origin   \* per version: the files behind that manifest's entries

vars == << image_files, order, gen, thumbs, thumb_dirs, teams_version, pc,
           stack, cur, entries, origin, calls, resp, served, served_origin >>

fsvars == << image_files, order >>

\* ---------------------------------------------------------- file system
\* the directories of a tree: the proper prefixes of its files
DirsOf(files) ==
    UNION { { SubSeq(f, 1, n) : n \in 1..(Len(f) - 1) } : f \in files }

\* p.is_dir() for a path under image_dir
is_dir(p) == p \in DirsOf(image_files)

\* the names directly inside directory dir of image_dir
ChildNames(dir) ==
    { f[Len(dir) + 1] : f \in { g \in image_files :
                                  /\ Len(g) > Len(dir)
                                  /\ SubSeq(g, 1, Len(dir)) = dir } }

\* base.iterdir(): the children of dir, in file system order
iterdir(dir) ==
    LET kids == ChildNames(dir)
        ns   == SelectSeq(order, LAMBDA n : n \in kids)
    IN  [i \in 1..Len(ns) |-> dir \o <<ns[i]>>]

\* Path.exists() below config.image_dir / config.thumbnail_dir
exists_image(p) == p \in image_files \/ p \in DirsOf(image_files) \/ p = <<>>

exists_thumb(p) == p \in DOMAIN thumbs \/ p \in thumb_dirs

\* ------------------------------------------------------ get_file_listing
\* ext = img.suffix.replace(".", "").lower()
ext_of(img) == lower(replace_dot(suffix(img)))

\* variant: the mapped extension replaces the original one
img_name_replaced(img) ==
    LET new_ext == EXTENSION_MAPPING(ext_of(img))
    IN  IF new_ext # <<>> THEN join(with_suffix_empty(img)) \o <<".">> \o new_ext
        ELSE join(img)

\* img_name = str(img) + (f".{new_ext}" if new_ext else "")
img_name(img) ==
    LET new_ext == EXTENSION_MAPPING(ext_of(img))
    IN  join(img) \o (IF new_ext # <<>> THEN <<".">> \o new_ext ELSE <<>>)

\* variant: no version prefix at all
prefix_of_none(version) == <<>>

\* prefix = V2_API_PREFIX if config.teams_version == 2 else ""
prefix_of(version) == IF version = 2 THEN V2_API_PREFIX ELSE <<>>

\* the ImageEntry yielded for img
ImageEntry(img, version) ==
    LET ext     == ext_of(img)
        new_ext == EXTENSION_MAPPING(ext)
    IN  [ filetype  |-> IF new_ext # <<>> THEN new_ext ELSE ext,
          id        |-> stem(img),
          name      |-> stem(img),
          src       |-> prefix_of(version) \o <<"/">> \o IMAGES \o <<"/">>
                            \o img_name(img),
          thumb_src |-> prefix_of(version) \o <<"/">> \o THUMBNAILS \o <<"/">>
                            \o img_name(img) ]

\* ------------------------------------------------------------- responses
NoResponse == [kind |-> "none", status |-> 0]

\* an exception leaving a handler: Flask answers 500
ErrorResponse(type, stage, named, cause) ==
    [ kind |-> "error", status |-> 500, type |-> type, stage |-> stage,
      named |-> named, cause |-> cause ]

\* resp = files if teams_version == 1 else {"videoBackgroundImages": files}
ManifestBody(files, version) ==
    IF version = 1 THEN files ELSE [videoBackgroundImages |-> files]

EntriesOf(body, version) ==
    IF version = 1 THEN body ELSE body.videoBackgroundImages

Init ==
    /\ image_files \in Trees
    /\ order \in Orders
    /\ gen = 0
    /\ thumbs = << >>
    /\ thumb_dirs = {<<>>}
    /\ teams_version \in Versions
    /\ pc = [w \in Workers |-> "idle"]
    /\ stack = [w \in Workers |-> <<>>]
    /\ cur = [w \in Workers |-> <<>>]
    /\ entries = [w \in Workers |-> <<>>]
    /\ origin = [w \in Workers |-> <<>>]
    /\ calls = [w \in Workers |-> 0]
    /\ resp = [w \in Workers |-> NoResponse]
    /\ served = [v \in Versions |-> <<>>]
    /\ served_origin = [v \in Versions |-> <<>>]

\* ------------------------------------------------------ GET /config.json
\* serve_config_json starts: list(get_file_listing(config)) opens the
\* outermost generator on config.image_dir
Begin(w) ==
    /\ pc[w] = "idle"
    /\ pc' = [pc EXCEPT ![w] = "iter"]
    /\ stack' = [stack EXCEPT ![w] = <<iterdir(<<>>)>>]
    /\ cur' = [cur EXCEPT ![w] = <<>>]
    /\ entries' = [entries EXCEPT ![w] = <<>>]
    /\ origin' = [origin EXCEPT ![w] = <<>>]
    /\ calls' = [calls EXCEPT ![w] = 0]
    /\ resp' = [resp EXCEPT ![w] = NoResponse]
    /\ UNCHANGED << fsvars, gen, thumbs, thumb_dirs, teams_version, served,
                    served_origin >>

\* only one request is handled at a time
BeginSequential(w) ==
    /\ \A o \in Workers : pc[o] = "idle"
    /\ Begin(w)

\* variant: the extension is compared without lower()
accepted_case_sensitive(img) == replace_dot(suffix(img)) \in ACCEPTED_SUFFIXES

\* the extension filter: ext not in ACCEPTED_SUFFIXES -> continue
accepted(img) == ext_of(img) \in ACCEPTED_SUFFIXES

\* one turn of `for p in base.iterdir()` in the innermost generator:
\* recurse into a directory, skip a file that is not accepted, or go on
\* with an accepted file; an exhausted generator returns to its caller
Iter(w) ==
    /\ pc[w] = "iter"
    /\ stack[w] # <<>>
    /\ LET top  == Head(stack[w])
           rest == Tail(stack[w])
       IN  IF top = <<>>
           THEN /\ rest # <<>>
                /\ stack' = [stack EXCEPT ![w] = rest]
                /\ UNCHANGED << pc, cur >>
           ELSE LET p == Head(top)
                IN  IF is_dir(p)
                    THEN /\ stack' = [stack EXCEPT
                                        ![w] = <<iterdir(p), Tail(top)>> \o rest]
                         /\ UNCHANGED << pc, cur >>
                    ELSE /\ stack' = [stack EXCEPT ![w] = <<Tail(top)>> \o rest]
                         /\ IF accepted(p)
                            THEN /\ cur' = [cur EXCEPT ![w] = p]
                                 /\ pc' = [pc EXCEPT ![w] = "exists"]
                            ELSE UNCHANGED << pc, cur >>
    /\ UNCHANGED << fsvars, gen, thumbs, thumb_dirs, teams_version, entries,
                    origin, calls, resp, served, served_origin >>

\* variant: a thumbnail older than its source counts as missing
thumb_missing_or_stale(thumb) ==
    \/ ~ exists_thumb(thumb)
    \/ (thumb \in DOMAIN thumbs /\ thumbs[thumb] # gen)

\* `if not thumb.exists()` for thumb = config.thumbnail_dir / img
thumb_missing(thumb) == ~ exists_thumb(thumb)

\* thumb = config.thumbnail_dir / img; if not thumb.exists(): call
\* create_thumbnail
Exists(w) ==
    /\ pc[w] = "exists"
    /\ IF thumb_missing(cur[w])
       THEN /\ pc' = [pc EXCEPT ![w] = "parent"]
            /\ calls' = [calls EXCEPT ![w] = @ + 1]
       ELSE /\ pc' = [pc EXCEPT ![w] = "yield"]
            /\ UNCHANGED calls
    /\ UNCHANGED << fsvars, gen, thumbs, thumb_dirs, teams_version, stack,
                    cur, entries, origin, resp, served, served_origin >>

\* an exception leaves get_file_listing and serve_config_json
Raise(w, response) ==
    /\ pc' = [pc EXCEPT ![w] = "idle"]
    /\ stack' = [stack EXCEPT ![w] = <<>>]
    /\ cur' = [cur EXCEPT ![w] = <<>>]
    /\ entries' = [entries EXCEPT ![w] = <<>>]
    /\ origin' = [origin EXCEPT ![w] = <<>>]
    /\ calls' = [calls EXCEPT ![w] = 0]
    /\ resp' = [resp EXCEPT ![w] = response]

\* create_thumbnail: `if not thumb.parent.exists()`
Parent(w) ==
    /\ pc[w] = "parent"
    /\ pc' = [pc EXCEPT ![w] = IF exists_thumb(parent(cur[w]))
                               THEN "save" ELSE "mkdir"]
    /\ UNCHANGED << fsvars, gen, thumbs, thumb_dirs, teams_version, stack,
                    cur, entries, origin, calls, resp, served, served_origin >>

\* what thumb.parent.mkdir() does: "ok", or the OSError it raises
mkdir_outcome(dir) ==
    IF exists_thumb(dir) THEN "FileExistsError"
    ELSE IF parent(dir) \notin thumb_dirs THEN "FileNotFoundError"
    ELSE "ok"

\* create_thumbnail: thumb.parent.mkdir(), one level, outside the try
Mkdir(w) ==
    /\ pc[w] = "mkdir"
    /\ LET dir == parent(cur[w])
           out == mkdir_outcome(dir)
       IN  IF out = "ok"
           THEN /\ thumb_dirs' = thumb_dirs \cup {dir}
                /\ pc' = [pc EXCEPT ![w] = "save"]
                /\ UNCHANGED << stack, resp, cur, entries, origin, calls >>
           ELSE /\ Raise(w, ErrorResponse(out, "mkdir", dir, "none"))
                /\ UNCHANGED thumb_dirs
    /\ UNCHANGED << fsvars, gen, thumbs, teams_version, served,
                    served_origin >>

\* the exception create_thumbnail raises when step `stage` fails: only the
\* body of the try (thumbnail, save) is wrapped in the IOError
thumbnail_error(stage, img) ==
    IF stage = "open"
    THEN ErrorResponse("UnidentifiedImageError", stage, img, "none")
    ELSE ErrorResponse("IOError", stage, img, stage)

\* the content of a thumbnail file whose save failed; a complete thumbnail
\* holds the generation of the source it was made from
Truncated == -1

\* variant: the file is opened for exclusive creation, an existing one is kept
WriteThumb_if_absent(thumb, complete) ==
    IF thumb \in DOMAIN thumbs THEN thumbs
    ELSE [ t \in DOMAIN thumbs \cup {thumb} |->
             IF t = thumb THEN (IF complete THEN gen ELSE Truncated)
             ELSE thumbs[t] ]

\* the thumbnail file after f.save(thumb)
WriteThumb(thumb, complete) ==
    [ t \in DOMAIN thumbs \cup {thumb} |->
        IF t = thumb THEN (IF complete THEN gen ELSE Truncated) ELSE thumbs[t] ]

\* create_thumbnail: Image.open(img), f.thumbnail(size), f.save(thumb).
\* Any of the three can fail.  Image.save opens thumb for writing and, when
\* the encoder fails, removes the file if this save created it; a file that
\* was there before stays, truncated.
Save(w) ==
    /\ pc[w] = "save"
    /\ \E outcome \in {"ok", "open", "thumbnail", "save"} :
         \/ /\ outcome = "ok"
            /\ thumbs' = WriteThumb(cur[w], TRUE)
            /\ pc' = [pc EXCEPT ![w] = "yield"]
            /\ UNCHANGED << stack, resp, cur, entries, origin, calls >>
         \/ /\ outcome \in {"open", "thumbnail"}
            /\ Raise(w, thumbnail_error(outcome, cur[w]))
            /\ UNCHANGED thumbs
         \/ /\ outcome = "save"
            /\ Raise(w, thumbnail_error(outcome, cur[w]))
            /\ thumbs' = IF cur[w] \in DOMAIN thumbs
                         THEN WriteThumb(cur[w], FALSE)
                         ELSE thumbs
    /\ UNCHANGED << fsvars, gen, thumb_dirs, teams_version, served,
                    served_origin >>

\* the yield of get_file_listing
Yield(w) ==
    /\ pc[w] = "yield"
    /\ entries' = [entries EXCEPT
                     ![w] = Append(@, ImageEntry(cur[w], teams_version))]
    /\ origin' = [origin EXCEPT ![w] = Append(@, cur[w])]
    /\ pc' = [pc EXCEPT ![w] = "iter"]
    /\ UNCHANGED << fsvars, gen, thumbs, thumb_dirs, teams_version, stack,
                    cur, calls, resp, served, served_origin >>

\* the outermost generator is exhausted: serve_config_json builds the
\* response from the list of entries
Finish(w) ==
    /\ pc[w] = "iter"
    /\ stack[w] = << <<>> >>
    /\ LET body == ManifestBody(entries[w], teams_version)
       IN  /\ resp' = [resp EXCEPT
                         ![w] = [ kind |-> "manifest", status |-> 200,
                                  version |-> teams_version, body |-> body,
                                  calls |-> calls[w],
                                  prev |-> served[teams_version] ]]
           /\ served' = [served EXCEPT ![teams_version] = <<body>>]
           /\ served_origin' = [served_origin EXCEPT
                                  ![teams_version] = origin[w]]
    /\ pc' = [pc EXCEPT ![w] = "idle"]
    /\ stack' = [stack EXCEPT ![w] = <<>>]
    /\ cur' = [cur EXCEPT ![w] = <<>>]
    /\ entries' = [entries EXCEPT ![w] = <<>>]
    /\ origin' = [origin EXCEPT ![w] = <<>>]
    /\ calls' = [calls EXCEPT ![w] = 0]
    /\ UNCHANGED << fsvars, gen, thumbs, thumb_dirs, teams_version >>

\* ------------------------------------------------ GET /<prefix>/<path>
\* Config.get_base_dir: the root a prefix stands for, "KeyError" otherwise
get_base_dir(prefix) ==
    IF prefix = IMAGES THEN "image_dir"
    ELSE IF prefix = THUMBNAILS THEN "thumbnail_dir"
    ELSE "KeyError"

\* Path.exists(), Path.is_dir() and Path.is_file() of root / path
path_exists(root, path) ==
    IF root = "image_dir" THEN exists_image(path) ELSE exists_thumb(path)

path_is_dir(root, path) ==
    IF root = "image_dir" THEN path \in DirsOf(image_files) \cup {<<>>}
    ELSE path \in thumb_dirs

path_is_file(root, path) ==
    IF root = "image_dir" THEN path \in image_files ELSE path \in DOMAIN thumbs

\* find_file: the path itself if it exists, else path.with_suffix("")
find_file(root, path) ==
    IF path_exists(root, path) THEN path ELSE with_suffix_empty(path)

\* list_files: the children of a directory, relative to the root
list_files(root, dir) ==
    LET all == IF root = "image_dir"
               THEN image_files \cup DirsOf(image_files)
               ELSE DOMAIN thumbs \cup thumb_dirs
    IN  { q \in all : Len(q) = Len(dir) + 1 /\ SubSeq(q, 1, Len(dir)) = dir }

\* the paths a client asks for: the names the manifests gave it (without
\* the version prefix and the /images/ or /thumbnails/ part), the stored
\* names, and a directory
RequestPaths ==
    { img_name(f) : f \in UNION { { served_origin[v][i] :
                                      i \in 1..Len(served_origin[v]) } :
                                  v \in Versions } }
      \cup { join(f) : f \in image_files } \cup { N_sub }

RequestPrefixes == { IMAGES, THUMBNAILS, <<"x">> }

\* serve_images: 404 for an unknown prefix, the listing of a directory,
\* else the file find_file resolves to (send_from_directory: 404 unless it
\* is a file)
ServeImages(w, prefix, path) ==
    /\ \A o \in Workers : pc[o] = "idle"
    /\ LET root == get_base_dir(prefix)
           rel  == split(path)
       IN  resp' = [resp EXCEPT ![w] =
             IF root = "KeyError"
             THEN [ kind |-> "file", status |-> 404, root |-> root,
                    request |-> path, file |-> <<>> ]
             ELSE IF path_is_dir(root, rel)
             THEN [ kind |-> "listing", status |-> 200, root |-> root,
                    request |-> path, paths |-> list_files(root, rel) ]
             ELSE LET q == find_file(root, rel)
                  IN  [ kind |-> "file",
                        status |-> IF path_is_file(root, q) THEN 200 ELSE 404,
                        root |-> root, request |-> path, file |-> q ] ]
    /\ UNCHANGED << fsvars, gen, thumbs, thumb_dirs, teams_version, pc, stack,
                    cur, entries, origin, calls, served, served_origin >>

\* ----------------------------------------------------------- environment
\* the content of the source images is edited (the tree itself is not)
ModifyImages ==
    /\ gen < MaxEdits
    /\ gen' = gen + 1
    /\ UNCHANGED << fsvars, thumbs, thumb_dirs, teams_version, pc, stack, cur,
                    entries, origin, calls, resp, served, served_origin >>

\* the server is stopped and run_cli started again with the other
\* teams_version in the config file; both directories stay as they are
Restart ==
    /\ \A o \in Workers : pc[o] = "idle"
    /\ teams_version' \in Versions \ {teams_version}
    /\ resp' = [w \in Workers |-> NoResponse]
    /\ UNCHANGED << fsvars, gen, thumbs, thumb_dirs, pc, stack, cur, entries,
                    origin, calls, served, served_origin >>

\* --------------------------------------------------------- specifications
Walk(w) ==
    \/ Iter(w)
    \/ Exists(w)
    \/ Parent(w)
    \/ Mkdir(w)
    \/ Save(w)
    \/ Yield(w)
    \/ Finish(w)

\* requests are handled one after the other, while the sources are edited
\* and the server is restarted
Next ==
    \/ BeginSequential(1)
    \/ Walk(1)
    \/ ModifyImages
    \/ Restart

Spec == Init /\ [][Next]_vars

\* manifest and file requests, one after the other
NextFiles ==
    \/ BeginSequential(1)
    \/ Walk(1)
    \/ \E prefix \in RequestPrefixes, path \in RequestPaths :
         ServeImages(1, prefix, path)

SpecFiles == Init /\ [][NextFiles]_vars

\* the threaded server: two manifest requests are handled at once
InitThreaded ==
    /\ Init
    /\ Cardinality(image_files) <= MaxThreadedFiles

NextThreaded ==
    \/ \E w \in Workers : Begin(w)
    \/ \E w \in Workers : Walk(w)
    \/ ModifyImages

SpecThreaded == InitThreaded /\ [][NextThreaded]_vars

\* ================================================================ claims
\* the final component of f ends in "." followed by x in any letter case,
\* with at least one character before the dot
HasExtension(f, x) ==
    LET n == f[Len(f)]
    IN  /\ Len(n) > Len(x) + 1
        /\ n[Len(n) - Len(x)] = "."
        /\ \A j \in 1..Len(x) : LowerChar(n[Len(n) - Len(x) + j]) = x[j]

IsImage(f) == \E x \in ACCEPTED_SUFFIXES : HasExtension(f, x)

IsRelabeled(f) ==
    HasExtension(f, <<"j", "p", "e", "g">>) \/ HasExtension(f, <<"g", "i", "f">>)

DotJpg == <<".", "j", "p", "g">>

\* a worker's step from the save position into the yield position
Saved(w) == pc[w] = "save" /\ pc'[w] = "yield"

\* C1: while requests are handled one at a time and the sources are edited,
\* a thumbnail file that exists stays and keeps its content, and
\* create_thumbnail is called only for a path at which no file exists
C1_ThumbnailWrittenOnce ==
    [][ /\ \A t \in DOMAIN thumbs : t \in DOMAIN thumbs' /\ thumbs'[t] = thumbs[t]
        /\ \A w \in Workers : calls'[w] > calls[w] => cur[w] \notin DOMAIN thumbs
      ]_vars

\* a walk found the thumbnail of an edited source and goes on without a
\* create_thumbnail call
C1_Witness ==
    /\ pc[1] = "yield"
    /\ calls[1] = 0
    /\ gen > 0
    /\ cur[1] \in DOMAIN thumbs
    /\ thumbs[cur[1]] = 0

\* C2: a manifest request that follows a successful one (same tree, same
\* configuration) calls create_thumbnail zero times and returns the same
\* manifest
C2_RepeatIsIdempotent ==
    \A w \in Workers :
        (resp[w].kind = "manifest" /\ resp[w].prev # <<>>)
            => /\ resp[w].calls = 0
               /\ resp[w].body = resp[w].prev[1]

C2_Witness ==
    /\ resp[1].kind = "manifest"
    /\ resp[1].prev # <<>>
    /\ Len(EntriesOf(resp[1].body, resp[1].version)) >= 2

\* the number of entries of a served manifest that file f produced
EntryCount(v, f) ==
    Cardinality({ i \in 1..Len(served_origin[v]) : served_origin[v][i] = f })

\* C3: a completed walk yields exactly one entry for every file whose last
\* extension is png, jpg, jpeg or gif in any letter case, at any depth, and
\* none for any other file
C3_OneEntryPerImage ==
    \A v \in Versions :
        served[v] # <<>> =>
            /\ Len(EntriesOf(served[v][1], v)) = Len(served_origin[v])
            /\ \A f \in image_files :
                   EntryCount(v, f) = (IF IsImage(f) THEN 1 ELSE 0)
            /\ \A i \in 1..Len(served_origin[v]) :
                   served_origin[v][i] \in image_files

C3_Witness ==
    /\ \E v \in Versions : served[v] # <<>> /\ Len(served_origin[v]) = 2
    /\ image_files = { <<N_sub, N_a_PNG>>, <<N_sub, N_d_jpg, N_e_jpg>>, <<N_gif>> }

ImagesPrefix == V2_API_PREFIX \o <<"/">> \o IMAGES \o <<"/">>

\* C4 as stated: in a version-2 manifest a jpeg or gif file has filetype
\* jpg and a src with the extension replaced by jpg, its thumbnail lies at
\* its own relative path, and a png or jpg file has its path unchanged
C4_ExtensionReplaced ==
    served[2] # <<>> =>
        \A i \in 1..Len(served_origin[2]) :
            LET f == served_origin[2][i]
                e == served[2][1].videoBackgroundImages[i]
            IN  /\ f \in DOMAIN thumbs
                /\ IF IsRelabeled(f)
                   THEN /\ e.filetype = <<"j", "p", "g">>
                        /\ e.src = ImagesPrefix \o join(with_suffix_empty(f))
                                       \o DotJpg
                   ELSE e.src = ImagesPrefix \o join(f)

\* C4 amended: jpg is appended to the relative path, after the original
\* extension (sub/b.jpeg gives .../images/sub/b.jpeg.jpg)
C4_ExtensionAppended ==
    served[2] # <<>> =>
        \A i \in 1..Len(served_origin[2]) :
            LET f == served_origin[2][i]
                e == served[2][1].videoBackgroundImages[i]
            IN  /\ f \in DOMAIN thumbs
                /\ IF IsRelabeled(f)
                   THEN /\ e.filetype = <<"j", "p", "g">>
                        /\ e.src = ImagesPrefix \o join(f) \o DotJpg
                   ELSE e.src = ImagesPrefix \o join(f)

C4_Witness ==
    /\ served[2] # <<>>
    /\ image_files = { <<N_a_png>>, <<N_sub, N_b_jpeg>>, <<N_c_txt>> }
    /\ DOMAIN thumbs = { <<N_a_png>>, <<N_sub, N_b_jpeg>> }

BothServed == served[1] # <<>> /\ served[2] # <<>>

ManifestShapes ==
    /\ DOMAIN served[1][1] = 1..Len(served[1][1])
    /\ DOMAIN served[2][1] = {VIDEO_KEY}

\* C5 as stated: the version-1 manifest is a bare sequence, the version-2
\* manifest an object with the one key videoBackgroundImages, and the two
\* sequences hold identical entries
C5_IdenticalEntries ==
    BothServed =>
        /\ ManifestShapes
        /\ served[2][1].videoBackgroundImages = served[1][1]

\* C5 amended: the entries agree in filetype, id and name, and the src and
\* thumb_src of version 2 are those of version 1 behind V2_API_PREFIX
C5_EntriesUpToPrefix ==
    BothServed =>
        LET e1 == served[1][1]
            e2 == served[2][1].videoBackgroundImages
        IN  /\ ManifestShapes
            /\ Len(e1) = Len(e2)
            /\ \A i \in 1..Len(e1) :
                   /\ e2[i].filetype = e1[i].filetype
                   /\ e2[i].id = e1[i].id
                   /\ e2[i].name = e1[i].name
                   /\ e2[i].src = V2_API_PREFIX \o e1[i].src
                   /\ e2[i].thumb_src = V2_API_PREFIX \o e1[i].thumb_src

C5_Witness == BothServed /\ Len(served[1][1]) >= 2

\* a manifest path without the version prefix and without the leading
\* /images/ or /thumbnails/
Unprefixed(path, v, dir) ==
    SubSeq(path, Len(prefix_of(v)) + Len(dir) + 3, Len(path))

\* the last file request asked root for the public path of entry i of the
\* version-v manifest
Asked(w, root, v, i) ==
    LET e == EntriesOf(served[v][1], v)[i]
    IN  /\ resp[w].kind \in {"file", "listing"}
        /\ resp[w].root = root
        /\ resp[w].request =
               (IF root = "image_dir" THEN Unprefixed(e.src, v, IMAGES)
                ELSE Unprefixed(e.thumb_src, v, THUMBNAILS))

\* C6: the src of every manifest entry resolves under image_dir to the
\* source file that produced the entry, and its thumb_src resolves under
\* thumbnail_dir to that file's thumbnail
C6_EntryResolvesToItsFile ==
    \A w \in Workers, v \in Versions, root \in {"image_dir", "thumbnail_dir"} :
        served[v] # <<>> =>
            \A i \in 1..Len(served_origin[v]) :
                Asked(w, root, v, i) =>
                    /\ resp[w].kind = "file"
                    /\ resp[w].status = 200
                    /\ resp[w].file = served_origin[v][i]

\* C7: a failure of create_thumbnail while it opens, resizes or saves the
\* image leaves the walk as the IOError that wraps the cause and names the
\* source image
C7_FailureIsWrapped ==
    \A w \in Workers :
        (resp[w].kind = "error" /\ resp[w].stage \in {"open", "thumbnail", "save"})
            => /\ resp[w].status = 500
               /\ resp[w].type = "IOError"
               /\ resp[w].cause = resp[w].stage
               /\ resp[w].named \in image_files

\* C8: a worker that found the thumbnail missing writes it when its save
\* succeeds, whatever another worker wrote there in between: nothing
\* between the check and the write excludes the second writer
C8_LastWriterWins ==
    [][ \A w \in Workers :
            Saved(w) => /\ cur[w] \in DOMAIN thumbs'
                        /\ thumbs'[cur[w]] = gen
                        /\ calls[w] > 0 ]_vars

\* both workers found the same thumbnail missing, one has written it, the
\* source was edited, and the other is about to write it again
C8_Witness ==
    /\ pc[1] = "yield"
    /\ pc[2] = "save"
    /\ cur[1] = cur[2]
    /\ entries[1] = <<>> /\ entries[2] = <<>>
    /\ calls[1] = 1 /\ calls[2] = 1
    /\ cur[2] \in DOMAIN thumbs
    /\ thumbs[cur[2]] # gen

\* C9: when the walk makes create_thumbnail create a missing parent
\* directory, the parent of that directory exists under thumbnail_dir
C9_GrandparentExists ==
    \A w \in Workers :
        pc[w] = "mkdir" => parent(parent(cur[w])) \in thumb_dirs

\* C10: two entries of a manifest that come from different files differ in
\* src and in thumb_src
C10_EntriesUnique ==
    \A v \in Versions :
        served[v] # <<>> =>
            \A i, j \in 1..Len(served_origin[v]) :
                LET es == EntriesOf(served[v][1], v)
                IN  served_origin[v][i] # served_origin[v][j]
                        => /\ es[i].src # es[j].src
                           /\ es[i].thumb_src # es[j].thumb_src

====
